---- MODULE Spec2Model ----
(***************************************************************************)
(* The streaming pass of the chat handler of app.py ("Analyze Financial    *)
(* Data with AI"): the loop over workflow.stream() that accumulates text   *)
(* per agent, creates the display containers and renders the accumulated   *)
(* text, followed by the final update of the status container.             *)
(*                                                                         *)
(* A text is a sequence of one-character strings.  The display is the      *)
(* status container (its label, state and expansion, and the sequence of   *)
(* elements created inside it) and the final answer placeholder.  Every    *)
(* call on the display is also recorded, in order, in the log instr.       *)
(***************************************************************************)
EXTENDS Integers, Sequences, FiniteSets, TLC

\* ------------------------------------------------------------------ bounds

\* the longest fragment stream of one turn
MaxFrags == 3

\* ------------------------------------------------------- names and inputs

\* the members of AgentName the loop compares agent_name with; each stands
\* for the member's value, a node name of the graph
SUPERVISOR == "AgentName.SUPERVISOR"
PRICE_ANALYST == "AgentName.PRICE_ANALYST"
FILING_ANALYST == "AgentName.FILING_ANALYST"
SYNTHESIZER == "AgentName.SYNTHESIZER"

\* the agents that get a labelled block in the status container
TraceAgents == {SUPERVISOR, PRICE_ANALYST, FILING_ANALYST}

\* the agents the loop creates a container for
KnownAgents == TraceAgents \cup {SYNTHESIZER}

\* current_agent = None
NoAgent == "None"

\* a metadata dict without the key "langgraph_node"
NoNode == "<absent>"

\* the node names a metadata dict can carry: the four agents and a node
\* name that is none of them
NodeNames == KnownAgents \cup {"other_node"}

Metadatas == NodeNames \cup {NoNode}

\* the texts a chunk can carry
Texts == {<< >>, <<"a">>, <<"$">>}

\* a message chunk: has_content is hasattr(message_chunk, "content")
Chunks ==
  {[has_content |-> FALSE, content |-> << >>]}
    \cup {[has_content |-> TRUE, content |-> t] : t \in Texts}

\* --------------------------------------------------------- pure functions

RECURSIVE escape_markdown(_)
escape_markdown(text) ==
  IF text = << >> THEN << >>
  ELSE (IF Head(text) = "$" THEN <<"\\", "$">> ELSE <<Head(text)>>)
         \o escape_markdown(Tail(text))

\* metadata.get("langgraph_node", "Unknown")
AgentNameOf(metadata) == IF metadata = NoNode THEN "Unknown" ELSE metadata

\* a skip test that forgets the chunks whose content is the empty string
IsEmptyChunkNoAttribute(chunk) == ~chunk.has_content

\* not hasattr(message_chunk, "content") or not message_chunk.content
IsEmptyChunk(chunk) == ~chunk.has_content \/ chunk.content = << >>

\* a switch test that takes every chunk for a switch
IsSwitchAlways(agent_name, cur) == TRUE

\* agent_name != current_agent
IsSwitch(agent_name, cur) == agent_name # cur

\* a reset that clears every accumulator
ResetEveryContent(bufs, agent_name) ==
  [a \in DOMAIN bufs \cup {agent_name} |-> << >>]

\* agent_content[agent_name] = ""
ResetContent(bufs, agent_name) ==
  [a \in DOMAIN bufs \cup {agent_name} |->
     IF a = agent_name THEN << >> ELSE bufs[a]]

\* an accumulation that keeps the latest chunk only
AccumulateLatest(bufs, agent_name, content) ==
  [bufs EXCEPT ![agent_name] = content]

\* agent_content[agent_name] += content
Accumulate(bufs, agent_name, content) ==
  [bufs EXCEPT ![agent_name] = @ \o content]

\* ------------------------------------------------------------- the display

\* an element of the page: st.empty() is kind "empty"; .markdown() and
\* .info() replace it by an element of that kind.  heading is the fixed
\* literal a render puts before the text, body the text
EmptyElement == [kind |-> "empty", heading |-> "", body |-> << >>]

\* the target number of final_answer_placeholder; the elements inside the
\* status container are numbered 1, 2, ... in creation order
AnswerSlot == 0

\* st.status("**Analyzing your request...**", expanded=True)
InitialStatus ==
  [label |-> "**Analyzing your request...**", state |-> "running",
   expanded |-> TRUE]

\* st.markdown(f"**{agent_name}**")
HeaderElement(agent_name) ==
  [kind |-> "markdown", heading |-> "", body |-> <<"**", agent_name, "**">>]

\* the elements the switch to agent_name creates inside the status container
SwitchElements(agent_name) ==
  IF agent_name \in TraceAgents
    THEN <<HeaderElement(agent_name), EmptyElement>>
  ELSE IF agent_name = SYNTHESIZER THEN <<EmptyElement>>
  ELSE << >>

\* a switch that keeps the container an agent already has
SwitchContainersReused(containers, agent_name, tr) ==
  IF agent_name \in KnownAgents /\ agent_name \notin DOMAIN containers
    THEN [a \in DOMAIN containers \cup {agent_name} |->
            IF a = agent_name
              THEN Len(tr) + Len(SwitchElements(agent_name))
              ELSE containers[a]]
    ELSE containers

\* agent_containers after the switch to agent_name: the st.empty() created
\* last is the agent's container
SwitchContainers(containers, agent_name, tr) ==
  IF agent_name \in KnownAgents
    THEN [a \in DOMAIN containers \cup {agent_name} |->
            IF a = agent_name
              THEN Len(tr) + Len(SwitchElements(agent_name))
              ELSE containers[a]]
    ELSE containers

\* status_container.update(label="**Synthesizing final answer...**")
SwitchStatus(st, agent_name) ==
  IF agent_name = SYNTHESIZER
    THEN [st EXCEPT !.label = "**Synthesizing final answer...**"]
    ELSE st

\* the new-section instruction of the switch to agent_name: a labelled block
\* for a trace agent, the change of the status label for the Synthesizer,
\* nothing for any other name.  target is the container created
SwitchInstr(agent_name, tr) ==
  IF agent_name \in TraceAgents
    THEN <<[op |-> "section", agent |-> agent_name,
            target |-> Len(tr) + 2, style |-> "block", heading |-> "",
            content |-> <<"**", agent_name, "**">>]>>
  ELSE IF agent_name = SYNTHESIZER
    THEN <<[op |-> "section", agent |-> agent_name,
            target |-> Len(tr) + 1, style |-> "label", heading |-> "",
            content |-> <<"**Synthesizing final answer...**">>]>>
  ELSE << >>

\* agent_name in agent_containers
HasContainer(containers, agent_name) == agent_name \in DOMAIN containers

\* a routing that renders every agent in its own container
RenderTargetOwnContainer(containers, agent_name) == containers[agent_name]

\* where the accumulated text of agent_name is rendered
RenderTarget(containers, agent_name) ==
  IF agent_name = SYNTHESIZER THEN AnswerSlot ELSE containers[agent_name]

\* .info() for the Supervisor, .markdown() for everybody else
RenderStyle(agent_name) ==
  IF agent_name = SUPERVISOR THEN "info" ELSE "markdown"

\* "### Analysis\n" is put before the Synthesizer's text
RenderHeading(agent_name) ==
  IF agent_name = SYNTHESIZER THEN "### Analysis\n" ELSE ""

\* a render that escapes the text a second time
RenderContentEscapedTwice(bufs, agent_name) ==
  escape_markdown(escape_markdown(bufs[agent_name]))

\* escape_markdown(agent_content[agent_name])
RenderContent(bufs, agent_name) == escape_markdown(bufs[agent_name])

\* the element a render leaves in its target
RenderElement(bufs, agent_name) ==
  [kind |-> RenderStyle(agent_name), heading |-> RenderHeading(agent_name),
   body |-> RenderContent(bufs, agent_name)]

\* the replace-content instruction of a render
RenderInstr(bufs, containers, agent_name) ==
  IF HasContainer(containers, agent_name)
    THEN <<[op |-> "replace", agent |-> agent_name,
            target |-> RenderTarget(containers, agent_name),
            style |-> RenderStyle(agent_name),
            heading |-> RenderHeading(agent_name),
            content |-> RenderContent(bufs, agent_name)]>>
    ELSE << >>

\* status_container.update(label="**Thoughts**", state="complete",
\* expanded=False)
FinalStatus ==
  [label |-> "**Thoughts**", state |-> "complete", expanded |-> FALSE]

\* a loop that finalizes nothing
FinalizeInstrMissing == << >>

\* the finalize instruction
FinalizeInstr ==
  <<[op |-> "finalize", agent |-> NoAgent, target |-> -1,
     style |-> FinalStatus.state, heading |-> "",
     content |-> <<FinalStatus.label>>]>>

\* ------------------------------------------------------------------ state

VARIABLES
  pc,                \* "streaming": in the loop; "done": the handler returned;
                     \* "raised": workflow.stream() raised and the exception
                     \* left the handler
  consumed,          \* the (metadata, chunk) pairs the loop has taken
  current_agent,
  agent_content,
  agent_containers,
  status,            \* status_container: label, state, expanded
  trace,             \* the elements inside status_container
  answer,            \* final_answer_placeholder
  instr,             \* the calls made on the display, in order
  price,             \* a call of get_historical_stock_price: its position,
                     \* argument, locals and outcome, and what the market
                     \* data service would answer
  filing,            \* a call of fetch_sec_filing_sections: its position,
                     \* arguments, locals and outcome, the calls it made on
                     \* the filing service, and what the service would answer
  session,           \* st.session_state of one browser session and the
                     \* locals of its script run that outlive a step
  app                \* the process: the identity set in the edgar library
                     \* and the script runs of the sessions it serves

vars ==
  <<pc, consumed, current_agent, agent_content, agent_containers, status,
    trace, answer, instr, price, filing, session, app>>

\* no call of the tool is under way
NoCall == [pc |-> "idle"]

\* the empty dict
EmptyDict == [a \in {} |-> << >>]

\* the handler after it created the status container, the placeholder and
\* the tracking variables, before the first chunk
Init ==
  /\ pc = "streaming"
  /\ consumed = << >>
  /\ current_agent = NoAgent
  /\ agent_content = EmptyDict
  /\ agent_containers = EmptyDict
  /\ status = InitialStatus
  /\ trace = << >>
  /\ answer = EmptyElement
  /\ instr = << >>
  /\ price = NoCall
  /\ filing = NoCall
  /\ session = NoCall
  /\ app = NoCall

\* the stream can yield another chunk
CanYield == pc = "streaming" /\ Len(consumed) < MaxFrags

\* one iteration of the loop on a chunk the loop skips
SkipChunk(metadata, chunk) ==
  /\ CanYield
  /\ IsEmptyChunk(chunk)
  /\ consumed' = Append(consumed, [metadata |-> metadata, chunk |-> chunk])
  /\ UNCHANGED <<pc, current_agent, agent_content, agent_containers, status,
                 trace, answer, instr>>
  /\ UNCHANGED <<price, filing, session, app>>

\* one iteration of the loop on a chunk with text
ProcessChunk(metadata, chunk) ==
  /\ CanYield
  /\ ~IsEmptyChunk(chunk)
  /\ LET agent_name == AgentNameOf(metadata)
         switch == IsSwitch(agent_name, current_agent)
         bufs0 == IF switch THEN ResetContent(agent_content, agent_name)
                  ELSE agent_content
         tr0 == IF switch THEN trace \o SwitchElements(agent_name) ELSE trace
         conts == IF switch
                    THEN SwitchContainers(agent_containers, agent_name, trace)
                    ELSE agent_containers
         ins0 == IF switch THEN SwitchInstr(agent_name, trace) ELSE << >>
         bufs == Accumulate(bufs0, agent_name, chunk.content)
         shown == HasContainer(conts, agent_name)
         target == RenderTarget(conts, agent_name)
     IN /\ consumed' =
             Append(consumed, [metadata |-> metadata, chunk |-> chunk])
        /\ current_agent' = agent_name
        /\ agent_content' = bufs
        /\ agent_containers' = conts
        /\ status' = IF switch THEN SwitchStatus(status, agent_name) ELSE status
        /\ trace' = IF shown /\ target # AnswerSlot
                      THEN [tr0 EXCEPT ![target] = RenderElement(bufs, agent_name)]
                      ELSE tr0
        /\ answer' = IF shown /\ target = AnswerSlot
                       THEN RenderElement(bufs, agent_name)
                       ELSE answer
        /\ instr' = instr \o ins0 \o RenderInstr(bufs, conts, agent_name)
        /\ pc' = pc
  /\ UNCHANGED <<price, filing, session, app>>

\* the stream is exhausted: the loop ends and the status container is
\* marked complete
StreamEnd ==
  /\ pc = "streaming"
  /\ status' = FinalStatus
  /\ instr' = instr \o FinalizeInstr
  /\ pc' = "done"
  /\ UNCHANGED <<consumed, current_agent, agent_content, agent_containers,
                 trace, answer>>
  /\ UNCHANGED <<price, filing, session, app>>

\* workflow.stream() raises: nothing in the handler catches the exception,
\* and the statements after the loop do not run
StreamRaise ==
  /\ pc = "streaming"
  /\ pc' = "raised"
  /\ UNCHANGED <<consumed, current_agent, agent_content, agent_containers,
                 status, trace, answer, instr>>
  /\ UNCHANGED <<price, filing, session, app>>

Next ==
  \/ \E metadata \in Metadatas, chunk \in Chunks : SkipChunk(metadata, chunk)
  \/ \E metadata \in Metadatas, chunk \in Chunks : ProcessChunk(metadata, chunk)
  \/ StreamEnd
  \/ StreamRaise

Spec == Init /\ [][Next]_vars

\* ---------------------------------------------- reading the fragment stream

\* the producer id of a consumed fragment
NameOf(f) == IF f.metadata = NoNode THEN "Unknown" ELSE f.metadata

\* the fragment carries text
HasText(f) == f.chunk.has_content /\ f.chunk.content # << >>

AllButLast(s) == SubSeq(s, 1, Len(s) - 1)

\* the producer of the last fragment with text in s, NoAgent if there is none
RECURSIVE LastSpeaker(_)
LastSpeaker(s) ==
  IF s = << >> THEN NoAgent
  ELSE IF HasText(s[Len(s)]) THEN NameOf(s[Len(s)])
  ELSE LastSpeaker(AllButLast(s))

\* the texts, in order, of the fragments at the end of s that p produced
\* with no fragment with text of another producer in between
RECURSIVE SpanOf(_, _)
SpanOf(s, p) ==
  IF s = << >> THEN << >>
  ELSE IF ~HasText(s[Len(s)]) THEN SpanOf(AllButLast(s), p)
  ELSE IF NameOf(s[Len(s)]) = p
    THEN SpanOf(AllButLast(s), p) \o s[Len(s)].chunk.content
  ELSE << >>

\* the positions of the instructions of kind op in a log
OpsIn(log, op) == {i \in 1..Len(log) : log[i].op = op}

\* the instructions a step adds to the log
Emitted == SubSeq(instr', Len(instr) + 1, Len(instr'))

\* the step takes a fragment from the stream
Consumes ==
  Len(consumed') = Len(consumed) + 1 /\ AllButLast(consumed') = consumed

Taken == consumed'[Len(consumed')]

\* ----------------------------------------------------------------- claims

\* C1: a stream that ends without raising is followed by exactly one
\* finalize instruction, which sets the status to complete and collapsed and
\* is the last instruction of the pass; none is emitted while the stream is
\* still being read.
C1_OneFinalizeAtEnd ==
  /\ pc = "streaming" => OpsIn(instr, "finalize") = {}
  /\ pc = "done" =>
       /\ OpsIn(instr, "finalize") = {Len(instr)}
       /\ instr[Len(instr)].style = "complete"
       /\ status.state = "complete"
       /\ ~status.expanded

C1_Witness ==
  /\ pc = "done"
  /\ Len(consumed) = MaxFrags
  /\ Cardinality(OpsIn(instr, "section")) >= 2
  /\ Cardinality(OpsIn(instr, "replace")) >= 2

\* C2: when the fragment taken last carries text and comes from a recognized
\* producer, the last instruction replaces that producer's content by the
\* escaped form of its whole buffer, and the buffer is the concatenation of
\* the texts of the producer's fragments since it last became active.
C2_WholeBufferRendered ==
  (pc # "done" /\ consumed # << >> /\ HasText(consumed[Len(consumed)])
     /\ NameOf(consumed[Len(consumed)]) \in KnownAgents) =>
    LET p == NameOf(consumed[Len(consumed)])
    IN /\ instr # << >>
       /\ instr[Len(instr)].op = "replace"
       /\ instr[Len(instr)].agent = p
       /\ p \in DOMAIN agent_content
       /\ instr[Len(instr)].content = escape_markdown(agent_content[p])
       /\ agent_content[p] = SpanOf(consumed, p)

\* a producer that is active for the second time: its buffer holds the text
\* of its second span only
C2_Witness ==
  /\ Len(consumed) = 3
  /\ NameOf(consumed[1]) = SUPERVISOR /\ consumed[1].chunk.content = <<"a">>
  /\ NameOf(consumed[2]) = PRICE_ANALYST /\ HasText(consumed[2])
  /\ NameOf(consumed[3]) = SUPERVISOR /\ consumed[3].chunk.content = <<"$">>
  /\ agent_content[SUPERVISOR] = <<"$">>
  /\ instr[Len(instr)].op = "replace"
  /\ instr[Len(instr)].content = <<"\\", "$">>

\* C3: a fragment with text from the producer of the previous fragment with
\* text emits no new-section instruction and appends to the buffer; a
\* fragment with text from a recognized producer that is not the active one
\* emits exactly one new-section instruction, a block for the Supervisor and
\* the two analysts and the label change for the Synthesizer.  The active
\* producer is the producer of the previous fragment with text.
C3_SectionOnSwitchOnly ==
  [][(Consumes /\ HasText(Taken)) =>
       LET p == NameOf(Taken)
           sections == OpsIn(Emitted, "section")
       IN /\ current_agent = LastSpeaker(consumed)
          /\ p = LastSpeaker(consumed) =>
               /\ sections = {}
               /\ agent_content'[p] = agent_content[p] \o Taken.chunk.content
          /\ (p \in KnownAgents /\ p # current_agent) =>
               /\ Cardinality(sections) = 1
               /\ Emitted[1].op = "section"
               /\ Emitted[1].agent = p
               /\ Emitted[1].style =
                    IF p = SYNTHESIZER THEN "label" ELSE "block"]_vars

\* two fragments of one producer, then one of another: two sections
C3_Witness ==
  /\ Len(consumed) = 3
  /\ \A i \in 1..3 : HasText(consumed[i])
  /\ NameOf(consumed[1]) = FILING_ANALYST
  /\ NameOf(consumed[2]) = FILING_ANALYST
  /\ NameOf(consumed[3]) = SYNTHESIZER
  /\ Cardinality(OpsIn(instr, "section")) = 2
  /\ agent_content[FILING_ANALYST] = <<"a", "$">>

\* C4: a fragment with text whose producer id is no recognized role emits no
\* instruction, creates no buffer and leaves the active producer, the
\* buffers and the display as they were.
C4_UnrecognizedTriggersNothing ==
  [][(Consumes /\ HasText(Taken) /\ NameOf(Taken) \notin KnownAgents) =>
       /\ instr' = instr
       /\ agent_content' = agent_content
       /\ current_agent' = current_agent
       /\ agent_containers' = agent_containers
       /\ trace' = trace
       /\ answer' = answer]_vars

\* C5: when the stream raises, the status container has left the running
\* state by a finalize instruction before the failure leaves the handler.
C5_FinalizedOnRaise ==
  pc = "raised" =>
    /\ status.state \in {"complete", "error"}
    /\ OpsIn(instr, "finalize") # {}

IsPrefix(s, t) == Len(s) <= Len(t) /\ SubSeq(t, 1, Len(s)) = s

\* C6, as claimed: in every step every buffer's earlier value is a prefix of
\* its later value.
C6_BufferNeverShrinks ==
  [][\A p \in DOMAIN agent_content :
       /\ p \in DOMAIN agent_content'
       /\ IsPrefix(agent_content[p], agent_content'[p])]_vars

\* C6, amended: in every step every buffer's earlier value is a prefix of
\* its later value, except for the buffer of a producer that becomes the
\* active producer in that step, which restarts and holds the text of the
\* fragment taken; a buffer once created stays.
C6_AppendOnlyWithinSpan ==
  [][\A p \in DOMAIN agent_content :
       /\ p \in DOMAIN agent_content'
       /\ \/ IsPrefix(agent_content[p], agent_content'[p])
          \/ /\ Consumes
             /\ HasText(Taken)
             /\ NameOf(Taken) = p
             /\ LastSpeaker(consumed) # p
             /\ agent_content'[p] = Taken.chunk.content]_vars

\* a producer returned: its buffer restarted, the other buffer is kept
C6_Witness ==
  /\ Len(consumed) = 3
  /\ \A i \in 1..3 : HasText(consumed[i])
  /\ NameOf(consumed[1]) = PRICE_ANALYST
  /\ NameOf(consumed[2]) = SUPERVISOR
  /\ NameOf(consumed[3]) = PRICE_ANALYST
  /\ agent_content[PRICE_ANALYST] = consumed[3].chunk.content
  /\ agent_content[SUPERVISOR] = consumed[2].chunk.content

\* C7: a fragment without text, whatever its producer id, changes nothing
\* but the position in the stream; so the active producer is always the
\* producer of the last fragment with text.
C7_EmptyFragmentNoOp ==
  [][/\ (Consumes /\ ~HasText(Taken)) =>
          UNCHANGED <<pc, current_agent, agent_content, agent_containers,
                      status, trace, answer, instr>>
     /\ current_agent' = LastSpeaker(consumed')]_vars

\* an empty fragment of an unseen producer between two fragments of one
\* producer: one section, one span
C7_Witness ==
  /\ Len(consumed) = 3
  /\ NameOf(consumed[1]) = SUPERVISOR /\ HasText(consumed[1])
  /\ NameOf(consumed[2]) = SYNTHESIZER /\ consumed[2].chunk.has_content
  /\ ~HasText(consumed[2])
  /\ NameOf(consumed[3]) = SUPERVISOR /\ HasText(consumed[3])
  /\ Cardinality(OpsIn(instr, "section")) = 1
  /\ DOMAIN agent_content = {SUPERVISOR}
  /\ Len(agent_content[SUPERVISOR]) = 2

\* C8: every replace-content instruction is from a recognized producer; it
\* targets the answer placeholder exactly when the producer is the
\* Synthesizer and an element of the status container otherwise, as an info
\* block for the Supervisor and a plain block for the analysts.  The answer
\* placeholder is empty or holds the Synthesizer's escaped buffer, and the
\* Synthesizer's container inside the status container stays empty.
C8_ChannelRouting ==
  /\ \A i \in OpsIn(instr, "replace") :
       /\ instr[i].agent \in KnownAgents
       /\ instr[i].target = AnswerSlot <=> instr[i].agent = SYNTHESIZER
       /\ instr[i].target # AnswerSlot => instr[i].target \in 1..Len(trace)
       /\ instr[i].style =
            IF instr[i].agent = SUPERVISOR THEN "info" ELSE "markdown"
  /\ IF SYNTHESIZER \in DOMAIN agent_content
       THEN /\ answer.kind = "markdown"
            /\ answer.body = escape_markdown(agent_content[SYNTHESIZER])
            /\ trace[agent_containers[SYNTHESIZER]] = EmptyElement
       ELSE answer = EmptyElement
  /\ \A a \in DOMAIN agent_containers \ {SYNTHESIZER} :
       /\ trace[agent_containers[a]].kind =
            IF a = SUPERVISOR THEN "info" ELSE "markdown"
       /\ trace[agent_containers[a]].body =
            escape_markdown(agent_content[a])

C8_Witness ==
  /\ Len(consumed) = 3
  /\ {instr[i].agent : i \in OpsIn(instr, "replace")} =
       {SUPERVISOR, PRICE_ANALYST, SYNTHESIZER}
  /\ answer.body = <<"\\", "$">>
  /\ trace[agent_containers[SUPERVISOR]].kind = "info"
  /\ trace[agent_containers[PRICE_ANALYST]].kind = "markdown"

\* C9: the step in which the Synthesizer becomes the active producer adds no
\* element to the status container.
C9_NoBlockForSynthesizer ==
  [][(Consumes /\ HasText(Taken) /\ NameOf(Taken) = SYNTHESIZER
        /\ current_agent # SYNTHESIZER) =>
       Len(trace') = Len(trace)]_vars

\* the number of "$" in a text
RECURSIVE Dollars(_)
Dollars(t) ==
  IF t = << >> THEN 0
  ELSE (IF Head(t) = "$" THEN 1 ELSE 0) + Dollars(Tail(t))

\* a text without its backslashes
RECURSIVE Unescaped(_)
Unescaped(t) ==
  IF t = << >> THEN << >>
  ELSE (IF Head(t) = "\\" THEN << >> ELSE <<Head(t)>>) \o Unescaped(Tail(t))

\* every "$" follows a backslash and every backslash precedes a "$"
OnceEscaped(t) ==
  \A i \in 1..Len(t) :
    /\ t[i] = "$" => (i > 1 /\ t[i - 1] = "\\")
    /\ t[i] = "\\" => (i < Len(t) /\ t[i + 1] = "$")

\* C10: no buffer holds a backslash; the content of every replace-content
\* instruction has each "$" behind exactly one backslash and no other
\* backslash; and after a fragment with text of a recognized producer the
\* buffer is the raw text of the span and the content of the last
\* instruction is that text with one backslash added per "$".
C10_EscapedOncePerRender ==
  /\ \A a \in DOMAIN agent_content :
       \A i \in 1..Len(agent_content[a]) : agent_content[a][i] # "\\"
  /\ \A i \in OpsIn(instr, "replace") : OnceEscaped(instr[i].content)
  /\ (pc # "done" /\ consumed # << >> /\ HasText(consumed[Len(consumed)])
        /\ NameOf(consumed[Len(consumed)]) \in KnownAgents) =>
       LET raw == agent_content[NameOf(consumed[Len(consumed)])]
           shown == instr[Len(instr)].content
       IN /\ raw = SpanOf(consumed, NameOf(consumed[Len(consumed)]))
          /\ Unescaped(shown) = raw
          /\ Len(shown) = Len(raw) + Dollars(raw)
          /\ Dollars(raw) = 0 => shown = raw

\* three renders of a text that gains a "$" twice
C10_Witness ==
  /\ Len(consumed) = 3
  /\ current_agent \in DOMAIN agent_content
  /\ agent_content[current_agent] = <<"$", "a", "$">>
  /\ instr[Len(instr)].op = "replace"
  /\ instr[Len(instr)].content = <<"\\", "$", "a", "\\", "$">>
  /\ Cardinality(OpsIn(instr, "replace")) = 3

\* ------------------------------------------- get_historical_stock_price

\* how many days before end_date a daily sample can lie
WindowDays == 8

\* the longest daily series
MaxSamples == 3

\* a date is a number of days since 1970-01-01; a datetime is a date and tod,
\* 0 at midnight and 1 later in the day

\* the dates datetime.now() is drawn from: 2024-03-04, a Monday, and the six
\* days after it
EndDates == {19786 + i : i \in 0..6}

Tickers == {"NVDA", "AMD"}

\* closing prices, in thousandths
Closes == {1004, 1125}

\* the value of a week without a sample
NaN == -1

\* what an operation of the call can raise
Exceptions == {"ConnectionError", "KeyError", "ValueError"}

\* the chronologically ordered daily series with dates in days
RECURSIVE SeriesOver(_, _)
SeriesOver(days, n) ==
  IF n = 0 \/ days = {} THEN {<< >>}
  ELSE {<< >>} \cup
       UNION {{<<[date |-> d, close |-> c]>> \o rest :
                 rest \in SeriesOver({e \in days : e > d}, n - 1)} :
              d \in days, c \in Closes}

\* 0 for Monday, ..., 6 for Sunday
Weekday(d) == (d + 3) % 7

\* the label of the "W-SUN" bin of date d: the Sunday that ends d's week
WeekEnd(d) == d + (6 - Weekday(d))

\* a bin value that is the mean of the bin's closes
MeanOfBin(series, label) ==
  LET idx == {i \in 1..Len(series) :
                series[i].date > label - 7 /\ series[i].date <= label}
      Sum[S \in SUBSET idx] ==
        IF S = {} THEN 0
        ELSE LET i == CHOOSE j \in S : TRUE
             IN series[i].close + Sum[S \ {i}]
  IN IF idx = {} THEN NaN ELSE Sum[idx] \div Cardinality(idx)

\* .last() of the bin labelled label: the close of the last sample whose
\* date is in the seven days that end at label, NaN when there is none
LastOfBin(series, label) ==
  LET idx == {i \in 1..Len(series) :
                series[i].date > label - 7 /\ series[i].date <= label}
  IN IF idx = {} THEN NaN
     ELSE series[CHOOSE i \in idx : \A j \in idx : j <= i].close

\* daily_history["Close"].resample("W-SUN").last(): one row per week from
\* the week of the first sample to the week of the last one
Resample(series) ==
  IF series = << >> THEN << >>
  ELSE LET first == WeekEnd(series[1].date)
           last == WeekEnd(series[Len(series)].date)
       IN [i \in 1..((last - first) \div 7 + 1) |->
             [date |-> first + 7 * (i - 1),
              close |-> LastOfBin(series, first + 7 * (i - 1))]]

\* date > end_date, date at midnight
After(date, end_date) ==
  date > end_date.date \/ (date = end_date.date /\ 0 > end_date.tod)

\* a loop that dates every line end_date
ClampAll(date, end_date) == end_date.date

\* a loop that keeps the week's own date
ClampNever(date, end_date) == date

\* if date > end_date: date = end_date
Clamp(date, end_date) ==
  IF After(date, end_date) THEN end_date.date ELSE date

\* round(close, 2), in hundredths: ties go to the even hundredth
Round2(close) ==
  IF close = NaN THEN NaN
  ELSE LET q == close \div 10
           r == close % 10
       IN IF r < 5 THEN q
          ELSE IF r > 5 THEN q + 1
          ELSE IF q % 2 = 0 THEN q ELSE q + 1

\* the year, month and day of a date
CivilOf(d) ==
  LET z == d + 719468
      era == z \div 146097
      doe == z - era * 146097
      yoe == (doe - doe \div 1460 + doe \div 36524 - doe \div 146096) \div 365
      doy == doe - (365 * yoe + yoe \div 4 - yoe \div 100)
      mp == (5 * doy + 2) \div 153
      m == IF mp < 10 THEN mp + 3 ELSE mp - 9
  IN [year |-> yoe + era * 400 + (IF m <= 2 THEN 1 ELSE 0),
      month |-> m,
      day |-> doy - (153 * mp + 2) \div 5 + 1]

\* n in decimal, zero-padded to width characters
RECURSIVE Padded(_, _)
Padded(n, width) ==
  IF width = 0 THEN << >>
  ELSE Padded(n \div 10, width - 1) \o <<n % 10>>

\* date.strftime("%Y-%m-%d"), a sequence of digits and "-"
DateText(d) ==
  LET c == CivilOf(d)
      Chars(n, w) == [i \in 1..w |-> ToString(Padded(n, w)[i])]
  IN Chars(c.year, 4) \o <<"-">> \o Chars(c.month, 2) \o <<"-">>
       \o Chars(c.day, 2)

\* f"<{date_text}>{round(close, 2)}</{date_text}>"
PriceLine(row, end_date) ==
  [open |-> DateText(Clamp(row.date, end_date)),
   value |-> Round2(row.close),
   close |-> DateText(Clamp(row.date, end_date))]

\* the lines of the loop over weekly_resampled
PriceLines(weekly, end_date) ==
  [i \in 1..Len(weekly) |-> PriceLine(weekly[i], end_date)]

\* no outcome yet
NoResult == [kind |-> "none", ticker |-> "", message |-> "", lines |-> << >>]

\* PRICES_RESPONSE_TEMPLATE.format(prices="\n".join(lines))
PricesText(lines) ==
  [kind |-> "prices", ticker |-> "", message |-> "", lines |-> lines]

\* f"An error occurred while fetching historical price for '{ticker}':
\* {str(e)}"
PriceErrorText(ticker, e) ==
  [kind |-> "error", ticker |-> ticker, message |-> e, lines |-> << >>]

\* a handler that catches the failures of the fetch only
PriceExceptFetchOnly(call, e) ==
  IF e = "ConnectionError"
    THEN [call EXCEPT !.pc = "returned",
                      !.result = PriceErrorText(call.ticker, e)]
    ELSE [call EXCEPT !.pc = "raised"]

\* except Exception as e: return the error text
PriceExcept(call, e) ==
  [call EXCEPT !.pc = "returned", !.result = PriceErrorText(call.ticker, e)]

\* the tool has no call under way while the stream loop is looked at, and
\* the stream loop is not running while a tool call is looked at
StreamIdle ==
  /\ pc = "idle"
  /\ consumed = << >>
  /\ current_agent = NoAgent
  /\ agent_content = EmptyDict
  /\ agent_containers = EmptyDict
  /\ status = InitialStatus
  /\ trace = << >>
  /\ answer = EmptyElement
  /\ instr = << >>

streamVars ==
  <<pc, consumed, current_agent, agent_content, agent_containers, status,
    trace, answer, instr>>

\* the tool is called with a ticker; end_date is datetime.now(); market is
\* the daily series the data service holds for the ticker
InitPrice ==
  /\ StreamIdle
  /\ filing = NoCall
  /\ session = NoCall
  /\ app = NoCall
  /\ \E t \in Tickers, day \in EndDates, tod \in {0, 1} :
       \E m \in SeriesOver((day - WindowDays)..day, MaxSamples) :
         price = [pc |-> "called", ticker |-> t,
                  end_date |-> [date |-> day, tod |-> tod], market |-> m,
                  daily_history |-> << >>, weekly_resampled |-> << >>,
                  result |-> NoResult]

\* stock.history(start, end, interval="1d") returns
PriceFetch ==
  /\ price.pc = "called"
  /\ price' = [price EXCEPT !.pc = "fetched", !.daily_history = price.market]
  /\ UNCHANGED <<streamVars, filing, session, app>>

\* daily_history["Close"].resample("W-SUN").last()
PriceResample ==
  /\ price.pc = "fetched"
  /\ price' = [price EXCEPT !.pc = "resampled",
                            !.weekly_resampled = Resample(price.daily_history)]
  /\ UNCHANGED <<streamVars, filing, session, app>>

\* the loop over the weeks and the return of the formatted text
PriceFormat ==
  /\ price.pc = "resampled"
  /\ price' = [price EXCEPT
                 !.pc = "returned",
                 !.result = PricesText(PriceLines(price.weekly_resampled,
                                                  price.end_date))]
  /\ UNCHANGED <<streamVars, filing, session, app>>

\* the fetch, the resampling or the formatting raises e inside the try
PriceRaises(e) ==
  /\ price.pc \in {"called", "fetched", "resampled"}
  /\ price' = PriceExcept(price, e)
  /\ UNCHANGED <<streamVars, filing, session, app>>

NextPrice ==
  \/ PriceFetch
  \/ PriceResample
  \/ PriceFormat
  \/ \E e \in Exceptions : PriceRaises(e)

SpecPrice == InitPrice /\ [][NextPrice]_vars

\* ------------------------------------------------- claims about the prices

\* C11: a call of get_historical_stock_price never ends with an exception:
\* whichever of the fetch, the resampling and the formatting fails, the call
\* returns a text, and the text of a failure names the ticker of the call
\* and the failure.
C11_PriceToolNeverRaises ==
  /\ price.pc # "raised"
  /\ price.pc = "returned" =>
       /\ price.result.kind \in {"prices", "error"}
       /\ price.result.kind = "error" =>
            /\ price.result.ticker = price.ticker
            /\ price.result.message \in Exceptions

\* the formatting failed after the fetch and the resampling succeeded
C11_Witness ==
  /\ price.pc = "returned"
  /\ price.result.kind = "error"
  /\ price.result.ticker = "AMD"
  /\ price.result.message = "ValueError"
  /\ Len(price.weekly_resampled) = 2

\* the samples of a series whose date is in the week from Monday to the
\* Sunday sunday
InWeek(series, sunday) ==
  {i \in 1..Len(series) :
     series[i].date >= sunday - 6 /\ series[i].date <= sunday}

\* the weeks of the rows of the resampled series that have a sample
FilledRows ==
  {i \in 1..Len(price.weekly_resampled) :
     InWeek(price.daily_history, price.weekly_resampled[i].date) # {}}

\* C18: every row of the resampled series is dated a Sunday, and the price
\* of a week with samples, in the series and rounded in the returned text,
\* is the close of the sample of that week with the latest date.
C18_LastObservedClose ==
  /\ price.pc \in {"resampled", "returned"} =>
       \A i \in FilledRows :
         LET sunday == price.weekly_resampled[i].date
             week == InWeek(price.daily_history, sunday)
             latest == CHOOSE k \in week :
                         \A j \in week : price.daily_history[j].date
                                           <= price.daily_history[k].date
         IN /\ Weekday(sunday) = 6
            /\ price.weekly_resampled[i].close =
                 price.daily_history[latest].close
  /\ (price.pc = "returned" /\ price.result.kind = "prices") =>
       /\ Len(price.result.lines) = Len(price.weekly_resampled)
       /\ \A i \in FilledRows :
            price.result.lines[i].value =
              Round2(price.weekly_resampled[i].close)

\* three samples in one week, the lowest close last
C18_Witness ==
  /\ price.pc = "returned"
  /\ price.result.kind = "prices"
  /\ Len(price.daily_history) = 3
  /\ price.daily_history[1].close = 1125
  /\ price.daily_history[2].close = 1125
  /\ price.daily_history[3].close = 1004
  /\ Len(price.result.lines) = 1
  /\ price.result.lines[1].value = 100

\* the texts of the dates up to end_date that a week of the series can end on
DatesUpTo(last) == {DateText(d) : d \in (last - WindowDays - 7)..last}

\* C19: the line of a week that ends after end_date is dated end_date, the
\* line of a week that ends on end_date or before it is dated its Sunday,
\* and no line is dated after end_date.
C19_NoFutureDate ==
  (price.pc = "returned" /\ price.result.kind = "prices") =>
    \A i \in 1..Len(price.result.lines) :
      LET sunday == price.weekly_resampled[i].date
          line == price.result.lines[i]
      IN /\ sunday > price.end_date.date =>
              line.open = DateText(price.end_date.date)
         /\ sunday <= price.end_date.date => line.open = DateText(sunday)
         /\ line.open \in DatesUpTo(price.end_date.date)
         /\ line.close = line.open

\* samples on 2024-03-01 and 2024-03-04, end_date 2024-03-04
C19_Witness ==
  /\ price.pc = "returned"
  /\ price.result.kind = "prices"
  /\ price.end_date.date = 19786
  /\ Len(price.daily_history) = 2
  /\ price.daily_history[1].date = 19783
  /\ price.daily_history[2].date = 19786
  /\ Len(price.result.lines) = 2
  /\ price.result.lines[1].open =
       <<"2", "0", "2", "4", "-", "0", "3", "-", "0", "3">>
  /\ price.result.lines[2].open =
       <<"2", "0", "2", "4", "-", "0", "3", "-", "0", "4">>

\* the Sundays of the weeks in which a series has a sample
WeeksOf(series) == {WeekEnd(series[i].date) : i \in 1..Len(series)}

\* C20: the returned text has one line per week with a sample and no line
\* for a week without one; the lines are in the order of the weeks and each
\* is keyed by a date of the form YYYY-MM-DD.
C20_OneLinePerFilledWeek ==
  (price.pc = "returned" /\ price.result.kind = "prices") =>
    /\ Len(price.result.lines) = Cardinality(WeeksOf(price.daily_history))
    /\ \A i \in 1..Len(price.result.lines) :
         /\ price.result.lines[i].value # NaN
         /\ price.weekly_resampled[i].date \in WeeksOf(price.daily_history)
         /\ Len(price.result.lines[i].open) = 10
         /\ price.result.lines[i].open[5] = "-"
         /\ price.result.lines[i].open[8] = "-"
    /\ \A i, j \in 1..Len(price.result.lines) :
         i < j =>
           price.weekly_resampled[i].date < price.weekly_resampled[j].date

\* the digit a character stands for
DigitOf(c) == CHOOSE n \in 0..9 : ToString(n) = c

\* the number written by the characters from..to of a text
RECURSIVE NumberAt(_, _, _)
NumberAt(text, from, to) ==
  IF to < from THEN 0
  ELSE 10 * NumberAt(text, from, to - 1) + DigitOf(text[to])

\* the year, month and day a text of the form YYYY-MM-DD names
DateOfText(text) ==
  [year |-> NumberAt(text, 1, 4), month |-> NumberAt(text, 6, 7),
   day |-> NumberAt(text, 9, 10)]

\* calendar order
Earlier(a, b) ==
  \/ a.year < b.year
  \/ a.year = b.year /\ a.month < b.month
  \/ a.year = b.year /\ a.month = b.month /\ a.day < b.day

\* C27: the dates of the returned lines, read as calendar dates, are
\* strictly increasing, none is after end_date, and only the last line can
\* be dated end_date in place of its week's Sunday.  (Every series the data
\* service holds ends on end_date or before it.)
C27_DatesStrictlyIncrease ==
  (price.pc = "returned" /\ price.result.kind = "prices") =>
    LET lines == price.result.lines
        asOf == CivilOf(price.end_date.date)
        dated == [i \in 1..Len(lines) |-> DateOfText(lines[i].open)]
    IN /\ \A i \in 1..Len(price.daily_history) :
            price.daily_history[i].date <= price.end_date.date
       /\ \A i \in 1..(Len(lines) - 1) : Earlier(dated[i], dated[i + 1])
       /\ \A i \in 1..Len(lines) :
            /\ ~Earlier(asOf, dated[i])
            /\ price.weekly_resampled[i].date > price.end_date.date =>
                 i = Len(lines) /\ dated[i] = asOf
            /\ price.weekly_resampled[i].date <= price.end_date.date =>
                 dated[i] = CivilOf(price.weekly_resampled[i].date)

\* samples in two weeks, the second week ends after end_date: the first
\* line is dated its Sunday, the last line end_date
C27_Witness ==
  /\ price.pc = "returned"
  /\ price.result.kind = "prices"
  /\ Len(price.result.lines) = 2
  /\ price.end_date.date = 19788
  /\ DateOfText(price.result.lines[1].open) =
       [year |-> 2024, month |-> 3, day |-> 3]
  /\ DateOfText(price.result.lines[2].open) =
       [year |-> 2024, month |-> 3, day |-> 6]

\* -------------------------------------------- fetch_sec_filing_sections

\* the longest list of sections in a request
MaxSections == 2

\* class Section(str, Enum): the values of the members
MDA == "mda"
RISK_FACTORS == "risk_factors"
BALANCE_SHEET == "balance_sheet"
INCOME_STATEMENT == "income_statement"
CASHFLOW_STATEMENT == "cashflow_statement"

SectionValues ==
  {MDA, RISK_FACTORS, BALANCE_SHEET, INCOME_STATEMENT, CASHFLOW_STATEMENT}

\* the sections read from the parsed text and from the statements
NarrativeSections == {MDA, RISK_FACTORS}
StatementSections == {BALANCE_SHEET, INCOME_STATEMENT, CASHFLOW_STATEMENT}

\* the identifiers a caller can put in a request: the five values and one
\* that is no value of Section
Identifiers == SectionValues \cup {"notes"}

\* the lists of at most n identifiers
RECURSIVE ListsOver(_)
ListsOver(n) ==
  IF n = 0 THEN {<< >>}
  ELSE LET shorter == ListsOver(n - 1)
       IN shorter \cup
          {Append(l, x) : l \in {k \in shorter : Len(k) = n - 1},
                          x \in Identifiers}

\* what the filing service answers: Company(ticker) returns or raises;
\* filings.latest() is a filing or None; filing.obj() and filing.xbrl() are
\* objects or None; an item of the parsed text is there, is None or its
\* lookup raises; a statement is there or is None
Services ==
  [company : {"found", "raises"}, latest : {"filing", "None"},
   obj : {"parsed", "None"}, xbrl : {"parsed", "None"},
   items : {"text", "None", "raises"}, statements : {"table", "None"}]

\* a schema that takes any string for a section
ValidRequestAnyString(sections) == TRUE

\* the argument schema the tool decorator derives from the signature,
\* sections: list[Section]: every element is a value of Section
ValidRequest(sections) ==
  \A i \in 1..Len(sections) : sections[i] \in SectionValues

\* a mapping that takes every assignment for a new key
DictSetAppend(d, key, data) == Append(d, [section |-> key, data |-> data])

\* sections_data[section] = data: a dict keeps the position of a key that
\* is set again
DictSet(d, key, data) ==
  IF \E i \in 1..Len(d) : d[i].section = key
    THEN [i \in 1..Len(d) |->
            IF d[i].section = key THEN [section |-> key, data |-> data]
            ELSE d[i]]
    ELSE Append(d, [section |-> key, data |-> data])

\* a chain whose last branch calls the accessor of the branch before
SectionSourceCopied(section) ==
  IF section = MDA THEN [via |-> "filing_obj", key |-> "Item 2"]
  ELSE IF section = RISK_FACTORS THEN [via |-> "filing_obj", key |-> "Item 1A"]
  ELSE IF section = BALANCE_SHEET
    THEN [via |-> "statements", key |-> "balance_sheet"]
  ELSE IF section = INCOME_STATEMENT
    THEN [via |-> "statements", key |-> "income_statement"]
  ELSE IF section = CASHFLOW_STATEMENT
    THEN [via |-> "statements", key |-> "income_statement"]
  ELSE [via |-> "nothing", key |-> ""]

\* the if/elif chain of the loop: what is read for a section; a section
\* that matches no branch reads nothing
SectionSource(section) ==
  IF section = MDA THEN [via |-> "filing_obj", key |-> "Item 2"]
  ELSE IF section = RISK_FACTORS THEN [via |-> "filing_obj", key |-> "Item 1A"]
  ELSE IF section = BALANCE_SHEET
    THEN [via |-> "statements", key |-> "balance_sheet"]
  ELSE IF section = INCOME_STATEMENT
    THEN [via |-> "statements", key |-> "income_statement"]
  ELSE IF section = CASHFLOW_STATEMENT
    THEN [via |-> "statements", key |-> "cashflow_statement"]
  ELSE [via |-> "nothing", key |-> ""]

\* the exception the read of a source raises, "" when it returns
ReadError(src, service) ==
  IF src.via = "filing_obj"
    THEN IF service.obj = "None" THEN "TypeError"
         ELSE IF service.items = "raises" THEN "KeyError"
         ELSE ""
  ELSE ""

\* what the read of a source returns
ReadData(src, service) ==
  [via |-> src.via, key |-> src.key,
   value |-> IF src.via = "filing_obj" THEN service.items
             ELSE service.statements]

\* f"<({section.value})>\n{data}\n</{section.value}>"
SectionChild(entry) ==
  [open |-> <<"<(", entry.section, ")>">>, data |-> entry.data,
   close |-> <<"</", entry.section, ">">>]

\* COMPANY_FILING_RESPONE_TEMPLATE.format(...)
FilingText(call) ==
  [kind |-> "filing", company |-> call.ticker, error |-> "",
   children |-> [i \in 1..Len(call.sections_data) |->
                   SectionChild(call.sections_data[i])]]

\* an exception leaves the tool
FilingRaised(call, e) ==
  [call EXCEPT !.pc = "raised",
               !.result = [kind |-> "exception", company |-> "", error |-> e,
                           children |-> << >>]]

\* the tool is invoked with a ticker and a list of sections
InitFiling ==
  /\ StreamIdle
  /\ price = NoCall
  /\ session = NoCall
  /\ app = NoCall
  /\ \E t \in Tickers, l \in ListsOver(MaxSections), sv \in Services :
       filing = [pc |-> "invoked", ticker |-> t, sections |-> l,
                 service |-> sv, calls |-> << >>, done |-> 0,
                 sections_data |-> << >>,
                 result |-> [kind |-> "none", company |-> "", error |-> "",
                             children |-> << >>]]

\* the tool checks the arguments against its schema before the body runs
FilingValidate ==
  /\ filing.pc = "invoked"
  /\ filing' = IF ValidRequest(filing.sections)
                 THEN [filing EXCEPT !.pc = "entered"]
                 ELSE FilingRaised(filing, "ValidationError")
  /\ UNCHANGED <<streamVars, price, session, app>>

\* company = Company(ticker); filings = company.get_filings(form="10-Q");
\* filing = filings.latest()
FilingResolve ==
  /\ filing.pc = "entered"
  /\ filing' =
       IF filing.service.company = "raises"
         THEN FilingRaised([filing EXCEPT !.calls = @ \o <<"Company">>],
                           "CompanyNotFoundError")
         ELSE [filing EXCEPT !.pc = "resolved",
                             !.calls = @ \o <<"Company", "get_filings",
                                              "latest">>]
  /\ UNCHANGED <<streamVars, price, session, app>>

\* filing_obj = filing.obj(); xbrl = filing.xbrl();
\* statements = xbrl.statements
FilingParse ==
  /\ filing.pc = "resolved"
  /\ filing' =
       IF filing.service.latest = "None"
         THEN FilingRaised(filing, "AttributeError")
       ELSE IF filing.service.xbrl = "None"
         THEN FilingRaised([filing EXCEPT !.calls = @ \o <<"obj", "xbrl">>],
                           "AttributeError")
       ELSE [filing EXCEPT !.pc = "parsed",
                           !.calls = @ \o <<"obj", "xbrl">>]
  /\ UNCHANGED <<streamVars, price, session, app>>

\* one iteration of the loop over sections
FilingExtract ==
  /\ filing.pc = "parsed"
  /\ filing.done < Len(filing.sections)
  /\ LET section == filing.sections[filing.done + 1]
         src == SectionSource(section)
         called == IF src.via = "nothing" THEN << >> ELSE <<src.key>>
     IN filing' =
          IF ReadError(src, filing.service) # ""
            THEN FilingRaised([filing EXCEPT !.calls = @ \o called],
                              ReadError(src, filing.service))
          ELSE [filing EXCEPT
                  !.calls = @ \o called,
                  !.done = @ + 1,
                  !.sections_data =
                    IF src.via = "nothing" THEN @
                    ELSE DictSet(@, section,
                                 ReadData(src, filing.service))]
  /\ UNCHANGED <<streamVars, price, session, app>>

\* the loop is over: the text is formatted and returned
FilingReturn ==
  /\ filing.pc = "parsed"
  /\ filing.done = Len(filing.sections)
  /\ filing' = [filing EXCEPT !.pc = "returned", !.result = FilingText(filing)]
  /\ UNCHANGED <<streamVars, price, session, app>>

NextFiling ==
  \/ FilingValidate
  \/ FilingResolve
  \/ FilingParse
  \/ FilingExtract
  \/ FilingReturn

SpecFiling == InitFiling /\ [][NextFiling]_vars

\* ------------------------------------------------ claims about the filing

\* the identifiers of the request
Requested == {filing.sections[i] : i \in 1..Len(filing.sections)}

\* the calls of the structured-statement accessors
AccessorCalls ==
  {filing.calls[i] : i \in 1..Len(filing.calls)} \cap StatementSections

\* C12: a call of fetch_sec_filing_sections whose request is valid never
\* ends with an exception: an unresolved company, a missing filing, a
\* missing parse and a missing item all end in a returned text.
C12_FilingToolNeverRaises ==
  filing.pc = "raised" => filing.result.error = "ValidationError"

\* C13: a request with an identifier outside the enumeration is rejected
\* with a validation error before any call is made on the filing service
\* and before anything is extracted, and it never returns a text.
C13_UnknownSectionRejected ==
  (filing.pc # "idle" /\ ~(Requested \subseteq SectionValues)) =>
    /\ filing.pc \in {"invoked", "raised"}
    /\ filing.calls = << >>
    /\ filing.sections_data = << >>
    /\ filing.pc = "raised" => filing.result.error = "ValidationError"

\* a request with a valid and an unknown identifier, rejected
C13_Witness ==
  /\ filing.pc = "raised"
  /\ filing.sections = <<RISK_FACTORS, "notes">>
  /\ filing.service.company = "found"
  /\ filing.result.kind = "exception"

\* C14: every accessor of the structured statements that a call invokes is
\* the accessor of a section of the request.
C14_AccessorOnlyIfRequested ==
  filing.pc # "idle" => AccessorCalls \subseteq Requested

\* a returned call for a narrative section and one statement
C14_Witness ==
  /\ filing.pc = "returned"
  /\ filing.sections = <<RISK_FACTORS, CASHFLOW_STATEMENT>>
  /\ AccessorCalls = {CASHFLOW_STATEMENT}

\* C15: a call loads the structured statements only when a statement
\* section is requested and the parsed text only when a narrative section
\* is requested.
C15_OnlyRequestedLoaded ==
  filing.pc # "idle" =>
    \A i \in 1..Len(filing.calls) :
      /\ filing.calls[i] = "xbrl" => Requested \cap StatementSections # {}
      /\ filing.calls[i] = "obj" => Requested \cap NarrativeSections # {}

\* the source of each section
SourceTable ==
  [s \in SectionValues |->
     CASE s = MDA -> [via |-> "filing_obj", key |-> "Item 2"]
       [] s = RISK_FACTORS -> [via |-> "filing_obj", key |-> "Item 1A"]
       [] OTHER -> [via |-> "statements", key |-> s]]

\* C16: when a call with a valid request has finished its loop, the mapping
\* has exactly one entry per distinct requested section and no other, and
\* the content of each entry was read from the section's source.
C16_OneEntryPerSection ==
  (filing.pc \in {"parsed", "returned"}
     /\ filing.done = Len(filing.sections)) =>
    LET d == filing.sections_data
    IN /\ {d[i].section : i \in 1..Len(d)} = Requested
       /\ Len(d) = Cardinality(Requested)
       /\ \A i \in 1..Len(d) :
            /\ d[i].section \in SectionValues
            /\ d[i].data.via = SourceTable[d[i].section].via
            /\ d[i].data.key = SourceTable[d[i].section].key
            /\ d[i].data.value =
                 IF d[i].section \in NarrativeSections
                   THEN filing.service.items
                   ELSE filing.service.statements

\* a section requested twice: one entry
C16_Witness ==
  /\ filing.pc = "returned"
  /\ filing.sections = <<MDA, MDA>>
  /\ Len(filing.sections_data) = 1
  /\ filing.sections_data[1].data.key = "Item 2"
  /\ filing.sections_data[1].data.value = "text"

\* C17: the returned text has one child per requested section, opened by
\* the tag <id> and closed by the tag </id> of the section's identifier.
C17_ChildTagsMatch ==
  filing.pc = "returned" =>
    LET c == filing.result.children
    IN /\ {c[i].close[2] : i \in 1..Len(c)} = Requested
       /\ Len(c) = Cardinality(Requested)
       /\ \A i \in 1..Len(c) :
            \E id \in Requested :
              /\ c[i].open = <<"<", id, ">">>
              /\ c[i].close = <<"</", id, ">">>

\* ------------------------------------------------- claims on the trace area

\* the positions before i of the new-section instructions of agent
SectionsBefore(log, i, agent) ==
  {j \in OpsIn(log, "section") : j < i /\ log[j].agent = agent}

\* the largest member of a non-empty set of numbers
Latest(S) == CHOOSE j \in S : \A k \in S : k <= j

\* the positions of the replace-content instructions written to a slot
WritesTo(log, slot) ==
  {i \in OpsIn(log, "replace") : log[i].target = slot}

\* C25: every replace-content instruction of a trace producer targets the
\* slot created at the producer's most recent new-section instruction; the
\* slots are created in the order in which the spans start, each behind its
\* header; and every slot holds the content of the last instruction that
\* targeted it, so the slot of an earlier span keeps what it received last.
C25_ReplaceTargetsLatestSlot ==
  /\ \A i \in OpsIn(instr, "replace") :
       instr[i].agent \in TraceAgents =>
         /\ SectionsBefore(instr, i, instr[i].agent) # {}
         /\ instr[i].target =
              instr[Latest(SectionsBefore(instr, i, instr[i].agent))].target
  /\ \A j, k \in OpsIn(instr, "section") :
       j < k => instr[j].target < instr[k].target
  /\ \A j \in OpsIn(instr, "section") :
       instr[j].agent \in TraceAgents =>
         LET slot == instr[j].target
         IN /\ slot \in 2..Len(trace)
            /\ trace[slot - 1] = HeaderElement(instr[j].agent)
            /\ WritesTo(instr, slot) # {}
            /\ \A i \in WritesTo(instr, slot) :
                 j < i /\ instr[i].agent = instr[j].agent
            /\ trace[slot].kind = instr[Latest(WritesTo(instr, slot))].style
            /\ trace[slot].body =
                 instr[Latest(WritesTo(instr, slot))].content

\* the Supervisor speaks, an analyst speaks, the Supervisor speaks again:
\* three blocks, and the Supervisor's first block keeps its text
C25_Witness ==
  /\ Len(consumed) = 3
  /\ NameOf(consumed[1]) = SUPERVISOR /\ consumed[1].chunk.content = <<"a">>
  /\ NameOf(consumed[2]) = FILING_ANALYST /\ HasText(consumed[2])
  /\ NameOf(consumed[3]) = SUPERVISOR /\ consumed[3].chunk.content = <<"$">>
  /\ Len(trace) = 6
  /\ trace[2].body = <<"a">>
  /\ trace[6].body = <<"\\", "$">>
  /\ agent_containers[SUPERVISOR] = 6

\* ======================================================================
\* The script runs of one browser session: the session state, the email
\* gate, the sidebar, the replay of the history and the chat input handler
\* up to the stream loop, which is the loop modelled above.  Every run
\* executes the script from the top; a run that does not reach the handler
\* has none of the handler's locals.
\* ======================================================================

\* ------------------------------------------------------------------ bounds

\* the most prompts the user submits in the session
MaxTurns == 2

\* the longest fragment stream of a turn of the session
TurnFrags == 2

\* ----------------------------------------------------------------- inputs

\* what the user can have typed in the email field; the empty text is the
\* field left empty
EmailInputs ==
  {<< >>, <<"a">>, <<"a", "@", "b">>, <<"a", ".", "b", "@", "c">>,
   <<"a", "@", "b", ".", "c">>, <<"a", "@", "b", "@", "c", ".", "d">>}

\* the prompts st.chat_input() can return
Prompts == {<<"a">>, <<"$">>}

\* the node names the pipeline emits in a turn of the session
TurnNodes == {SUPERVISOR, SYNTHESIZER, "other_node"}

\* the email of another session served by the process
OtherEmail == <<"x", "@", "y", ".", "z">>

\* st.session_state.email = None, which the gate treats like the empty text
NoEmail == << >>

\* ------------------------------------------------------- pure functions

\* c in text
Contains(text, c) == \E i \in 1..Len(text) : text[i] = c

\* text.split("@")
RECURSIVE SplitAt(_)
SplitAt(text) ==
  IF ~Contains(text, "@") THEN <<text>>
  ELSE LET i == CHOOSE k \in 1..Len(text) :
                  text[k] = "@" /\ \A j \in 1..(k - 1) : text[j] # "@"
       IN <<SubSeq(text, 1, i - 1)>>
            \o SplitAt(SubSeq(text, i + 1, Len(text)))

\* "@" in email_input and "." in email_input.split("@")[1]
ValidEmail(email_input) ==
  Contains(email_input, "@") /\ Contains(SplitAt(email_input)[2], ".")

\* a gate that lets every run pass
GateOpenAlways(email) == TRUE

\* the else branch of "if not st.session_state.email"
GateOpen(email) == email # NoEmail

HumanMessage(content) == [type |-> "human", content |-> content]

AIMessage(content) == [type |-> "ai", content |-> content]

\* an append that puts the prompt in front
AppendHumanFirst(messages, prompt) == <<HumanMessage(prompt)>> \o messages

\* st.session_state.messages.append(HumanMessage(content=prompt))
AppendHuman(messages, prompt) == Append(messages, HumanMessage(prompt))

\* AgentState(messages=st.session_state.messages.copy()): the state holds a
\* list of its own with the same elements
InitialState(messages) == [messages |-> messages, shared |-> FALSE]

\* no AgentState was built in this run
NoState == [messages |-> << >>, shared |-> FALSE]

\* the chat bubble the replay paints for a message of the history
Bubble(m) ==
  [role |-> IF m.type = "human" THEN "user" ELSE "assistant",
   body |-> escape_markdown(m.content)]

\* the bubbles of the replay loop over st.session_state.messages
Replay(messages) == [i \in 1..Len(messages) |-> Bubble(messages[i])]

\* the handler's bubble for the prompt: st.markdown(prompt)
PromptBubble(prompt) == [role |-> "user", body |-> prompt]

\* tracking variables that survive from the turn before
StartTrackingKept(cur, bufs, conts) ==
  [current_agent |-> cur, agent_content |-> bufs, agent_containers |-> conts]

\* current_agent = None; agent_containers = {}; agent_content = {}
StartTracking(cur, bufs, conts) ==
  [current_agent |-> NoAgent, agent_content |-> EmptyDict,
   agent_containers |-> EmptyDict]

\* a call the run makes outside the stream loop
Call(op, arg) == [op |-> op, arg |-> arg]

\* the calls of a log with the given name
CallsOf(log, op) == {i \in 1..Len(log) : log[i].op = op}

\* ------------------------------------------------------------ script runs

\* session: email and messages are st.session_state.email and .messages;
\* the other fields belong to the latest run: run, the calls it made outside
\* the stream loop; gate_email, the email the gate found; email_input,
\* the text it read from the email field; before, the history it found; prompt, what st.chat_input() returned to it (empty if
\* nothing); initial_state, the AgentState it built; page, the chat bubbles
\* it painted; turns, the prompts submitted so far.
\* app: identity is what set_identity() stored in the edgar library, one
\* value for the whole process.
InitSession ==
  /\ StreamIdle
  /\ price = NoCall
  /\ filing = NoCall
  /\ session = [email |-> NoEmail, messages |-> << >>, run |-> << >>,
                gate_email |-> NoEmail, email_input |-> << >>,
                before |-> << >>, prompt |-> << >>,
                initial_state |-> NoState, page |-> << >>, turns |-> 0]
  /\ app = [identity |-> NoEmail]

\* the latest run is over: it ended, stopped, or its handler returned or
\* was left by an exception
RunOver == pc \in {"idle", "done", "raised"}

\* a run that ends before the chat handler: the handler's locals and its
\* display elements do not exist
HandlerNotReached ==
  /\ pc' = "idle"
  /\ consumed' = << >>
  /\ current_agent' = NoAgent
  /\ agent_content' = EmptyDict
  /\ agent_containers' = EmptyDict
  /\ status' = InitialStatus
  /\ trace' = << >>
  /\ answer' = EmptyElement
  /\ instr' = << >>

\* a run that finds no email in the session: it shows the email field and,
\* if the field holds a text, validates it; a valid text is stored, set as
\* the identity and the script is rerun; the run stops in every other case
GateRun(email_input) ==
  /\ RunOver
  /\ ~GateOpen(session.email)
  /\ LET typed == email_input # << >>
         accepted == typed /\ ValidEmail(email_input)
         log == IF ~typed
                  THEN <<Call("info", << >>), Call("stop", << >>)>>
                ELSE IF accepted
                  THEN <<Call("info", << >>),
                         Call("set_identity", email_input),
                         Call("success", << >>), Call("rerun", << >>)>>
                ELSE <<Call("info", << >>), Call("error", << >>),
                       Call("stop", << >>)>>
     IN /\ session' =
             [session EXCEPT !.email = IF accepted THEN email_input ELSE @,
                             !.run = log,
                             !.gate_email = session.email,
                             !.email_input = email_input,
                             !.before = session.messages,
                             !.prompt = << >>,
                             !.initial_state = NoState,
                             !.page = << >>]
        /\ app' = [app EXCEPT !.identity =
                                IF accepted THEN email_input ELSE @]
  /\ HandlerNotReached
  /\ UNCHANGED <<price, filing>>

\* a run in which the "New Conversation" button was clicked
NewConversation ==
  /\ RunOver
  /\ GateOpen(session.email)
  /\ session' =
       [session EXCEPT !.messages = << >>,
                       !.run = <<Call("set_identity", session.email),
                                 Call("clear", << >>), Call("rerun", << >>)>>,
                       !.gate_email = session.email,
                       !.email_input = << >>,
                       !.before = session.messages,
                       !.prompt = << >>,
                       !.initial_state = NoState,
                       !.page = << >>]
  /\ app' = [app EXCEPT !.identity = session.email]
  /\ HandlerNotReached
  /\ UNCHANGED <<price, filing>>

\* a run without a click and without a prompt: the history is painted
PlainRun ==
  /\ RunOver
  /\ GateOpen(session.email)
  /\ session' =
       [session EXCEPT !.run = <<Call("set_identity", session.email),
                                 Call("replay", << >>)>>,
                       !.gate_email = session.email,
                       !.email_input = << >>,
                       !.before = session.messages,
                       !.prompt = << >>,
                       !.initial_state = NoState,
                       !.page = Replay(session.messages)]
  /\ app' = [app EXCEPT !.identity = session.email]
  /\ HandlerNotReached
  /\ UNCHANGED <<price, filing>>

\* a run in which st.chat_input() returns a prompt: the script up to the
\* first next() on workflow.stream()
Submit(prompt) ==
  /\ RunOver
  /\ GateOpen(session.email)
  /\ session.turns < MaxTurns
  /\ LET messages == AppendHuman(session.messages, prompt)
         tracking ==
           StartTracking(current_agent, agent_content, agent_containers)
     IN /\ session' =
             [session EXCEPT !.messages = messages,
                             !.run = <<Call("set_identity", session.email),
                                       Call("replay", << >>),
                                       Call("append", prompt),
                                       Call("copy", << >>),
                                       Call("stream", << >>)>>,
                             !.gate_email = session.email,
                             !.email_input = << >>,
                             !.before = session.messages,
                             !.prompt = prompt,
                             !.initial_state = InitialState(messages),
                             !.page = Append(Replay(session.messages),
                                             PromptBubble(prompt)),
                             !.turns = @ + 1]
        /\ app' = [app EXCEPT !.identity = session.email]
        /\ current_agent' = tracking.current_agent
        /\ agent_content' = tracking.agent_content
        /\ agent_containers' = tracking.agent_containers
  /\ pc' = "streaming"
  /\ consumed' = << >>
  /\ status' = InitialStatus
  /\ trace' = << >>
  /\ answer' = EmptyElement
  /\ instr' = << >>
  /\ UNCHANGED <<price, filing>>

\* the loop of the turn takes a chunk it skips
TurnSkip(metadata, chunk) ==
  /\ Len(consumed) < TurnFrags
  /\ SkipChunk(metadata, chunk)

\* the loop of the turn takes a chunk with text
TurnProcess(metadata, chunk) ==
  /\ Len(consumed) < TurnFrags
  /\ ProcessChunk(metadata, chunk)

\* the script run of another session passes its gate: set_identity() with
\* that session's email
OtherSessionRun ==
  /\ app.identity # OtherEmail
  /\ app' = [app EXCEPT !.identity = OtherEmail]
  /\ UNCHANGED <<streamVars, price, filing, session>>

NextSession ==
  \/ \E email_input \in EmailInputs : GateRun(email_input)
  \/ NewConversation
  \/ PlainRun
  \/ \E prompt \in Prompts : Submit(prompt)
  \/ \E metadata \in TurnNodes, chunk \in Chunks : TurnSkip(metadata, chunk)
  \/ \E metadata \in TurnNodes, chunk \in Chunks :
       TurnProcess(metadata, chunk)
  \/ StreamEnd
  \/ StreamRaise
  \/ OtherSessionRun

SpecSession == InitSession /\ [][NextSession]_vars

\* ------------------------------------------------- claims on the session

\* the latest run reached the chat handler
HandlerReached == CallsOf(session.run, "stream") # {}

\* C21: when the handler has returned after the stream ended, the last
\* message of the session's history is the assistant's answer to the prompt.
C21_AnswerJoinsHistory ==
  (pc = "done" /\ HandlerReached) =>
    /\ Len(session.messages) >= 2
    /\ session.messages[Len(session.messages)].type = "ai"
    /\ session.messages[Len(session.messages) - 1] =
         HumanMessage(session.prompt)

\* C22: a run that finds no email at the gate appends nothing to the
\* history, starts no stream and ends before the handler; a run that reaches
\* the handler has called set_identity() with the session's email before it
\* appended the prompt and before it started the stream.
C22_GateBlocksUse ==
  /\ session.gate_email = NoEmail =>
       /\ CallsOf(session.run, "append") = {}
       /\ ~HandlerReached
       /\ session.messages = session.before
       /\ pc = "idle"
  /\ pc \in {"streaming", "done", "raised"} => HandlerReached
  /\ HandlerReached =>
       /\ session.email # NoEmail
       /\ \E i \in CallsOf(session.run, "set_identity") :
            /\ session.run[i].arg = session.email
            /\ \A j \in CallsOf(session.run, "append")
                          \cup CallsOf(session.run, "stream") : i < j

\* the first prompt of a session whose email the gate accepted is streamed
C22_Witness ==
  /\ pc = "streaming"
  /\ session.email = <<"a", "@", "b", ".", "c">>
  /\ session.turns = 1
  /\ Len(session.messages) = 1
  /\ session.run[1] = Call("set_identity", session.email)
  /\ Len(consumed) = 1

\* a text has a "." somewhere after an "@"
DotAfterAt(text) ==
  \E i, j \in 1..Len(text) : i < j /\ text[i] = "@" /\ text[j] = "."

\* C23: a gate run that read a non-empty text stores it as the session's
\* email, without an error, exactly when the text has a "." somewhere after
\* an "@"; it shows an error and leaves the email unset otherwise.
C23_AcceptsAtThenDot ==
  (session.gate_email = NoEmail /\ session.email_input # << >>) =>
    IF DotAfterAt(session.email_input)
      THEN /\ session.email = session.email_input
           /\ CallsOf(session.run, "error") = {}
      ELSE /\ session.email = NoEmail
           /\ CallsOf(session.run, "error") # {}

\* the positions of the fragments with text of a recognized producer
Recognized(s) ==
  {i \in 1..Len(s) : HasText(s[i]) /\ NameOf(s[i]) \in KnownAgents}

\* the k-th smallest member of a set of numbers
Nth(S, k) == CHOOSE e \in S : Cardinality({x \in S : x <= e}) = k

\* C24: a turn starts with no active producer, no buffer, no container and
\* an empty display; the first fragment with text of a recognized producer
\* emits a new-section instruction before anything else; and the k-th
\* replace-content instruction of the turn carries the escaped text of the
\* span that ends at the turn's k-th fragment with text of a recognized
\* producer, so it holds text of this turn's fragments only.
C24_TurnStartsFresh ==
  pc \in {"streaming", "done", "raised"} =>
    LET rec == Recognized(consumed)
        reps == OpsIn(instr, "replace")
    IN /\ (\A i \in 1..Len(consumed) : ~HasText(consumed[i])) =>
            /\ current_agent = NoAgent
            /\ agent_content = EmptyDict
            /\ agent_containers = EmptyDict
            /\ trace = << >>
            /\ answer = EmptyElement
       /\ rec = {} => (instr = << >> \/ instr = FinalizeInstr)
       /\ rec # {} =>
            /\ instr[1].op = "section"
            /\ instr[1].agent = NameOf(consumed[Nth(rec, 1)])
       /\ DOMAIN agent_content \subseteq
            {NameOf(consumed[i]) : i \in 1..Len(consumed)}
       /\ Cardinality(reps) = Cardinality(rec)
       /\ \A k \in 1..Cardinality(rec) :
            LET at == Nth(rec, k)
                p == NameOf(consumed[at])
            IN /\ instr[Nth(reps, k)].agent = p
               /\ instr[Nth(reps, k)].content =
                    escape_markdown(SpanOf(SubSeq(consumed, 1, at), p))

\* the second turn of a session: its first fragment is the Supervisor's and
\* opens a section, and the block shows the text of this turn only
C24_Witness ==
  /\ session.turns = 2
  /\ Len(session.messages) = 2
  /\ pc = "streaming"
  /\ Len(consumed) = 2
  /\ NameOf(consumed[1]) = SUPERVISOR /\ consumed[1].chunk.content = <<"a">>
  /\ NameOf(consumed[2]) = SUPERVISOR /\ consumed[2].chunk.content = <<"$">>
  /\ instr[1].op = "section"
  /\ trace[2].body = <<"a", "\\", "$">>

\* C26: in a run with a prompt the history is the history the run found
\* with the prompt appended at its end, once; the append comes before the
\* copy and the copy before the stream; the AgentState holds a list of its
\* own with the messages of the history, the prompt last; and the history
\* stays so while the stream is read, when it has ended and when it raised.
\* A run without a prompt appends nothing.
C26_PromptAppendedOnce ==
  /\ session.prompt # << >> =>
       /\ pc \in {"streaming", "done", "raised"}
       /\ session.messages =
            Append(session.before, HumanMessage(session.prompt))
       /\ ~session.initial_state.shared
       /\ session.initial_state.messages = session.messages
       /\ session.initial_state.messages[Len(session.messages)] =
            HumanMessage(session.prompt)
       /\ Cardinality(CallsOf(session.run, "append")) = 1
       /\ \A i \in CallsOf(session.run, "append") :
            /\ session.run[i].arg = session.prompt
            /\ \A j \in CallsOf(session.run, "copy") :
                 /\ i < j
                 /\ \A k \in CallsOf(session.run, "stream") : j < k
  /\ session.prompt = << >> =>
       /\ CallsOf(session.run, "append") = {}
       /\ session.messages \in {session.before, << >>}

\* the second prompt differs from the first and its stream raised after a
\* fragment
C26_Witness ==
  /\ pc = "raised"
  /\ session.turns = 2
  /\ Len(session.messages) = 2
  /\ session.messages[1] = HumanMessage(<<"$">>)
  /\ session.messages[2] = HumanMessage(<<"a">>)
  /\ Len(consumed) >= 1

\* C28: while a turn of the session is streaming, the identity set in the
\* edgar library is the session's own email.
C28_OwnIdentityWhileStreaming ==
  pc = "streaming" => app.identity = session.email

====
